---- MODULE Spec2Model ----
(***************************************************************************)
(* Vial / PFS detection dashboard: the detection page (user_page.py), the  *)
(* image functions it calls (detection_model.py), the users table and its  *)
(* functions (auth.py, models.py) and the login session (home.py,          *)
(* admin_page.py).                                                         *)
(*                                                                         *)
(* An image is a record [width, height, px, draws]: px gives the RGB       *)
(* triple of every pixel, draws is the list of ImageDraw calls applied to  *)
(* it (the rasterisation of a rectangle or an ellipse is PIL's business:   *)
(* the calls and their arguments are kept as the code issues them).        *)
(* A numpy array, as cv2 handles it, is a record [width, height, px].      *)
(***************************************************************************)
EXTENDS Integers, Sequences, FiniteSets, TLC

VARIABLES
    pc,                     \* position of the script run of user_detection_page
    username,               \* st.session_state["username"]
    uploaded_files,         \* the files of the submitted upload form
    images,                 \* user_page.py:49
    image_names,            \* user_page.py:50
    idx,                    \* index of the file / image the current loop is at
    original_folder,        \* original_images/ : file name -> image
    processed_folder,       \* processed_images/
    combined_folder,        \* combined_images/
    vials_out,              \* (processed_image_vials, counts_vials, timestamp_vials)
    pfs_out,                \* (processed_image_pfs, counts_pfs, timestamp_pfs)
    final,                  \* (final_image, model_used, final_counts)
    combined_image,         \* user_page.py:108
    results_list,           \* user_page.py:84
    detection,              \* the rows of the SQL table 'detection'
    clock,                  \* the wall clock, in seconds
    error,                  \* the exception that ended the script run, or NoError
    call,                   \* the arguments of a function called on its own
    ret,                    \* its return value
    session_state,          \* st.session_state: logged_in, is_admin, is_user
    page,                   \* what the last script run of home.py rendered
    module_call,            \* what the call on line 137 of user_page.py did
    notice,                 \* the st.error / st.success of the last run
    users,                  \* the rows of the SQL table 'users'
    outbox,                 \* the password emails sent
    runs,                   \* detection runs ended since the session began
    event,                  \* the widget event the last run of home.py handled
    shown,                  \* the results table the page shows (results_df)
    processed               \* every result record made since the login

vars == <<pc, username, uploaded_files, images, image_names, idx,
          original_folder, processed_folder, combined_folder,
          vials_out, pfs_out, final, combined_image, results_list,
          detection, clock, error, call, ret,
          session_state, page, module_call, notice, users, outbox, runs,
          shown, processed, event>>

(***************************************************************************)
(* Bounds.                                                                 *)
(***************************************************************************)
MaxPixels == 2      \* images have at most this many pixels
MaxDet == 2         \* detections returned by one predict call
MaxCls == 1         \* class ids are 0..MaxCls; only 0 is in a label table
MaxBatch == 3       \* files in one submitted upload form

NoError == "NoError"
Unbound == "<unbound>"

(***************************************************************************)
(* Images.                                                                 *)
(***************************************************************************)
Red == <<255, 0, 0>>
Blue == <<0, 0, 255>>
Black == <<0, 0, 0>>
Palette == {Red, Blue}

Coords(w, h) == (0 .. w - 1) \X (0 .. h - 1)

ImagesOfSize(w, h) ==
    { [width |-> w, height |-> h, px |-> f, draws |-> <<>>] :
        f \in [Coords(w, h) -> Palette] }

\* Every decoded image of at most n pixels over the palette.
Images(n) ==
    UNION { ImagesOfSize(s[1], s[2]) :
              s \in { t \in (1 .. n) \X (1 .. n) : t[1] * t[2] <= n } }

\* dict.get(key, default)
Get(d, key, default) == IF key \in DOMAIN d THEN d[key] ELSE default

EmptyDict == [k \in {} |-> 0]

\* np.array(image)
np_array(image) ==
    [width |-> image.width, height |-> image.height, px |-> image.px]

\* Image.fromarray(array): the array's channels are taken as R, G, B as they
\* stand.
Image_fromarray(arr) ==
    [width |-> arr.width, height |-> arr.height, px |-> arr.px, draws |-> <<>>]

\* cv2.cvtColor(arr, COLOR_RGB2BGR) and cv2.cvtColor(arr, COLOR_BGR2RGB): both
\* exchange the first and the third channel of every pixel.
cvtColor(arr) ==
    [arr EXCEPT !.px = [p \in DOMAIN arr.px |->
                          <<arr.px[p][3], arr.px[p][2], arr.px[p][1]>>]]

\* Image.new('RGB', (w, h)): every pixel is black.
Image_new(w, h) ==
    [width |-> w, height |-> h, px |-> [p \in Coords(w, h) |-> Black],
     draws |-> <<>>]

Shift(d, dx, dy) ==
    [d EXCEPT !.box = <<d.box[1] + dx, d.box[2] + dy, d.box[3] + dx, d.box[4] + dy>>]

\* canvas.paste(im, (x0, y0)): the pixels of im replace those of the canvas in
\* the box im covers, cut to the canvas.
paste(canvas, im, x0, y0) ==
    [canvas EXCEPT
        !.px = [p \in DOMAIN canvas.px |->
                  IF <<p[1] - x0, p[2] - y0>> \in DOMAIN im.px
                  THEN im.px[<<p[1] - x0, p[2] - y0>>]
                  ELSE canvas.px[p]],
        !.draws = @ \o [k \in 1 .. Len(im.draws) |-> Shift(im.draws[k], x0, y0)]]

\* No image: a local that holds none yet.
NoImage == [width |-> 0, height |-> 0, px |-> [p \in {} |-> Black], draws |-> <<>>]

Max(a, b) == IF a >= b THEN a ELSE b

\* A plausible slip: the second image pasted at the origin too.
concatenate_images_overlap(image1, image2) ==
    paste(paste(Image_new(image1.width + image2.width,
                          Max(image1.height, image2.height)),
                image1, 0, 0),
          image2, 0, 0)

concatenate_images(image1, image2) ==
    LET total_width == image1.width + image2.width
        max_height == Max(image1.height, image2.height)
        concatenated_image == Image_new(total_width, max_height)
    IN  paste(paste(concatenated_image, image1, 0, 0), image2, image1.width, 0)

(***************************************************************************)
(* Detection.                                                              *)
(***************************************************************************)
\* detection_model.py:76-89; thresholds in hundredths.
models ==
    [Vials |-> [conf_threshold |-> 65, iou_threshold |-> 45,
                classes |-> [c \in {0} |-> "VIAL"]],
     PFS   |-> [conf_threshold |-> 70, iou_threshold |-> 45,
                classes |-> [c \in {0} |-> "PFS"]]]

ModelNames == {"Vials", "PFS"}
KnownLabels == {"PFS", "VIAL"}

\* One row of results[0].boxes.data: the corner of the box and the class id
\* (the box is one pixel wide and high; the confidence is read and unused).
Row(x, y, c) == [x1 |-> x, y1 |-> y, x2 |-> x + 1, y2 |-> y + 1, cls |-> c]

SeqsUpTo(S, n) == UNION { [1 .. k -> S] : k \in 0 .. n }

\* What a model may return for an image: up to n rows with the given corners.
Results(origins, n) ==
    SeqsUpTo({ Row(o[1], o[2], c) : o \in origins, c \in 0 .. MaxCls }, n)

\* key=lambda x: (x[1][0], x[1][1])
KeyLE(a, b) == a.x1 < b.x1 \/ (a.x1 = b.x1 /\ a.y1 <= b.y1)

RECURSIVE InsertSorted(_, _)
\* r goes after every row whose key is not larger: sorted() is stable.
InsertSorted(s, r) ==
    IF s = <<>> THEN <<r>>
    ELSE IF KeyLE(s[Len(s)], r) THEN Append(s, r)
    ELSE Append(InsertSorted(SubSeq(s, 1, Len(s) - 1), r), s[Len(s)])

RECURSIVE sorted(_)
sorted(rows) ==
    IF rows = <<>> THEN <<>>
    ELSE InsertSorted(sorted(SubSeq(rows, 1, Len(rows) - 1)), rows[Len(rows)])

\* One iteration of the loop of predict_and_draw (lines 131-152). bbox_color
\* and dot_color are locals of the function: an iteration that assigns neither
\* reads what an earlier iteration left, and raises UnboundLocalError when
\* none did.
DrawRow(st, row, classes) ==
    LET class_name == Get(classes, row.cls, "Unknown")
        bbox_color == IF class_name = "PFS" THEN "black"
                      ELSE IF class_name = "VIAL" THEN "white"
                      ELSE st.bbox_color
        dot_color  == IF class_name = "PFS" THEN "white"
                      ELSE IF class_name = "VIAL" THEN "black"
                      ELSE st.dot_color
    IN  IF st.raised # NoError THEN st
        ELSE IF bbox_color = Unbound
        THEN [st EXCEPT !.raised = "UnboundLocalError"]
        ELSE [st EXCEPT
                !.bbox_color = bbox_color,
                !.dot_color = dot_color,
                !.img_draw.draws =
                    @ \o << [shape |-> "rectangle",
                             box |-> <<row.x1, row.y1, row.x2, row.y2>>,
                             color |-> bbox_color],
                            [shape |-> "ellipse",
                             box |-> <<row.x1, row.y1, row.x1 + 5, row.y1 + 5>>,
                             color |-> dot_color] >>,
                !.class_counts =
                    IF class_name \in DOMAIN @
                    THEN [@ EXCEPT ![class_name] = @ + 1] ELSE @]

RECURSIVE DrawRows(_, _, _)
DrawRows(st, rows, classes) ==
    IF rows = <<>> THEN st
    ELSE DrawRows(DrawRow(st, Head(rows), classes), Tail(rows), classes)

\* predict_and_draw(image, model_info), given the rows the YOLO model returns
\* for the image (results[0].boxes.data) and the clock reading of the return
\* statement. The value is [raised, image, counts, timestamp].
predict_and_draw(image, model_info, rows, now) ==
    LET bgr == cvtColor(np_array(image))
    IN  IF Len(rows) = 0
        THEN [raised |-> NoError, image |-> Image_fromarray(bgr),
              counts |-> EmptyDict, timestamp |-> now]
        ELSE LET st == DrawRows(
                         [img_draw |-> Image_fromarray(cvtColor(bgr)),
                          class_counts |-> [l \in KnownLabels |-> 0],
                          bbox_color |-> Unbound, dot_color |-> Unbound,
                          raised |-> NoError],
                         sorted(rows), model_info.classes)
             IN  IF st.raised # NoError
                 THEN [raised |-> st.raised, image |-> NoImage,
                       counts |-> EmptyDict, timestamp |-> now]
                 ELSE [raised |-> NoError, image |-> st.img_draw,
                       counts |-> st.class_counts, timestamp |-> now]

(***************************************************************************)
(* The users table and the functions of auth.py.                           *)
(***************************************************************************)
TestEmail == "testuser@example.com"
TestPassword == "testpassword"
TestEmployeeId == "TEST123"

\* generate_password_hash(password): a salted hash, here the tagged password;
\* check_password_hash(hash, password) holds when the hash was made of it.
generate_password_hash(password) == [method |-> "pbkdf2", of |-> password]
check_password_hash(hashed, password) == hashed.of = password

\* A row of 'users' (models.py:43-50).
UserRow(employee_id, first_name, last_name, email, mobile_contact, hashed_password) ==
    [employee_id |-> employee_id, first_name |-> first_name,
     last_name |-> last_name, email |-> email,
     mobile_contact |-> mobile_contact, hashed_password |-> hashed_password]

\* What a function returns: a user, None, or an exception that leaves it.
ReturnUser(u) == [kind |-> "User", user |-> u]
ReturnNone == [kind |-> "None"]
Raised(type) == [kind |-> type]

\* A plausible slip: the unique constraint declared on email only.
IntegrityViolation_email_only(table, u) ==
    \E k \in 1 .. Len(table) : table[k].email = u.email

\* models.py:45 and 48: employee_id and email are unique; the commit of a row
\* that repeats either raises IntegrityError.
IntegrityViolation(table, u) ==
    \E k \in 1 .. Len(table) :
        table[k].employee_id = u.employee_id \/ table[k].email = u.email

\* send_password_email(email, password)
PasswordEmail(email, password) == [to |-> email, password |-> password]

\* db.add(user); db.commit(); send_password_email(...); return user, with the
\* except IntegrityError branch (auth.py:67-81 and 106-117). smtp_ok tells
\* whether the mail server takes the message: an smtplib exception is not
\* caught and leaves the function after the commit.
AddCommitSend(table, mails, u, password, smtp_ok) ==
    IF IntegrityViolation(table, u)
    THEN [users |-> table, outbox |-> mails, ret |-> ReturnNone]
    ELSE IF ~smtp_ok
    THEN [users |-> Append(table, u), outbox |-> mails,
          ret |-> Raised("SMTPException")]
    ELSE [users |-> Append(table, u),
          outbox |-> Append(mails, PasswordEmail(u.email, password)),
          ret |-> ReturnUser(u)]

\* create_user(db, ...), with the password generate_random_password() drew.
create_user(table, mails, employee_id, first_name, last_name, email, mobile_contact, password, smtp_ok) ==
    AddCommitSend(table, mails,
                  UserRow(employee_id, first_name, last_name, email,
                          mobile_contact, generate_password_hash(password)),
                  password, smtp_ok)

\* db.query(User).filter(User.email == email).first(): the index of the row,
\* or 0.
FirstByEmail(table, email) ==
    IF \E k \in 1 .. Len(table) : table[k].email = email
    THEN CHOOSE k \in 1 .. Len(table) :
            /\ table[k].email = email
            /\ \A j \in 1 .. k - 1 : table[j].email # email
    ELSE 0

TestUserRow ==
    UserRow(TestEmployeeId, "Test", "User", TestEmail, "1234567890",
            generate_password_hash(TestPassword))

\* A plausible slip: the password mailed again when the user is there already.
create_test_user_resend(table, mails, smtp_ok) ==
    IF FirstByEmail(table, TestEmail) = 0
    THEN AddCommitSend(table, mails, TestUserRow, TestPassword, smtp_ok)
    ELSE [users |-> table,
          outbox |-> Append(mails, PasswordEmail(TestEmail, TestPassword)),
          ret |-> ReturnNone]

\* create_test_user() (auth.py:83-117).
create_test_user(table, mails, smtp_ok) ==
    IF FirstByEmail(table, TestEmail) = 0
    THEN AddCommitSend(table, mails, TestUserRow, TestPassword, smtp_ok)
    ELSE [users |-> table, outbox |-> mails, ret |-> ReturnNone]

\* f"{user.first_name} {user.last_name}"
FullName(u) ==
    IF u.first_name = "Test" /\ u.last_name = "User" THEN "Test User"
    ELSE IF u.first_name = "Ann" /\ u.last_name = "Lee" THEN "Ann Lee"
    ELSE "?"

\* A plausible slip: the password not checked.
authenticate_no_check(table, email, password, name) ==
    LET k == FirstByEmail(table, email)
    IN  IF k # 0
        THEN [ret |-> ReturnUser(table[k]), username |-> FullName(table[k])]
        ELSE [ret |-> ReturnNone, username |-> name]

\* authenticate(email, password) (auth.py:159-175): what it returns and what
\* st.session_state["username"] is after it, name being its value before.
authenticate(table, email, password, name) ==
    LET k == FirstByEmail(table, email)
    IN  IF k # 0 /\ check_password_hash(table[k].hashed_password, password)
        THEN [ret |-> ReturnUser(table[k]), username |-> FullName(table[k])]
        ELSE [ret |-> ReturnNone, username |-> name]

(***************************************************************************)
(* The detection page: one script run of user_detection_page.              *)
(***************************************************************************)
NoOutcome ==
    [raised |-> NoError, image |-> NoImage, counts |-> EmptyDict, timestamp |-> 0]
NoFinal ==
    [final_image |-> NoImage, model_used |-> "", final_counts |-> EmptyDict]
NoException == [type |-> NoError, at |-> 0]
NoCall == [fn |-> ""]
NoRet == [done |-> FALSE]

\* The run has not started: nothing is uploaded and every local is unset.
\* No key "username" in st.session_state; the key holding None.
Absent == "<absent>"
PyNone == "None"

\* A widget event: the button pressed, with what the form it submits holds.
Event(widget, email, password, files) ==
    [widget |-> widget, email |-> email, password |-> password, files |-> files]
NoEvent == Event("none", "", "", <<>>)

\* The locals of a script run of the page before its first statement.
RunStart ==
    /\ pc = "form"
    /\ uploaded_files = <<>>
    /\ images = <<>>
    /\ image_names = <<>>
    /\ idx = 0
    /\ vials_out = NoOutcome
    /\ pfs_out = NoOutcome
    /\ final = NoFinal
    /\ combined_image = NoImage
    /\ results_list = <<>>
    /\ error = NoException

Flags(logged_in, is_admin, is_user) ==
    [k \in {"logged_in", "is_admin", "is_user"} |->
        IF k = "logged_in" THEN logged_in
        ELSE IF k = "is_admin" THEN is_admin ELSE is_user]

\* The detection page as Test User Login leaves it, the folders empty: the
\* run has not started, nothing is uploaded and every local is unset.
PageRendered ==
    /\ RunStart
    /\ username = "TestUser"
    /\ original_folder = EmptyDict
    /\ processed_folder = EmptyDict
    /\ combined_folder = EmptyDict
    /\ clock = 0
    /\ session_state = Flags(TRUE, FALSE, TRUE)
    /\ page = "detect"
    /\ module_call = "refused"
    /\ notice = ""
    /\ users = <<TestUserRow>>
    /\ outbox = <<PasswordEmail(TestEmail, TestPassword)>>
    /\ runs = 0
    /\ event = Event("Login as Test User", "", "", <<>>)
    /\ shown = <<>>
    /\ processed = <<>>

pageVars == <<pc, username, uploaded_files, images, image_names, idx,
              original_folder, processed_folder, combined_folder,
              vials_out, pfs_out, final, combined_image, results_list,
              detection, clock, error>>

callVars == <<call, ret>>

\* The session and the users table: no step of the detection run writes them.
sessVars == <<session_state, page, module_call, notice, users, outbox, runs,
              event>>

\* A file of the upload form: its name and, when Image.open can read it, the
\* image it decodes to.
File(n, r, im) == [name |-> n, readable |-> r, image |-> im]

\* The exception that ends a script run; Streamlit shows it on the page.
Raise(type, k) == [type |-> type, at |-> k]

\* Where the loop of lines 85-122 goes with k the next image: its body, or the
\* results table after it.
LoopHead(k, imgs) == IF k <= Len(imgs) THEN "detect_vials" ELSE "table"

\* Lines 52-57: the upload form is submitted with a batch of files.
Submit(batches) ==
    /\ pc = "form"
    /\ \E files \in batches :
         /\ uploaded_files' = files
         /\ idx' = 1
         /\ pc' = IF files = <<>> THEN "table" ELSE "upload"
    /\ shown' = <<>>
    /\ UNCHANGED <<username, images, image_names, original_folder,
                   processed_folder, combined_folder, vials_out, pfs_out,
                   final, combined_image, results_list, detection, clock,
                   error, callVars, sessVars, processed>>

\* Lines 58-63: one iteration of the loop over uploaded_files. Image.open
\* raises on a file that is no image, and nothing catches it.
UploadFile ==
    /\ pc = "upload"
    /\ LET uploaded_file == uploaded_files[idx]
       IN  IF ~uploaded_file.readable
           THEN /\ error' = Raise("UnidentifiedImageError", idx)
                /\ pc' = "error"
                /\ UNCHANGED <<images, image_names, original_folder, idx>>
           ELSE /\ images' = Append(images, uploaded_file.image)
                /\ image_names' = Append(image_names, uploaded_file.name)
                /\ original_folder' =
                       [n \in DOMAIN original_folder \cup {uploaded_file.name} |->
                          IF n = uploaded_file.name THEN uploaded_file.image
                          ELSE original_folder[n]]
                /\ IF idx < Len(uploaded_files)
                   THEN /\ idx' = idx + 1
                        /\ pc' = "upload"
                   ELSE /\ idx' = 1
                        /\ pc' = "detect_vials"
                /\ UNCHANGED error
    /\ UNCHANGED <<username, uploaded_files, processed_folder, combined_folder,
                   vials_out, pfs_out, final, combined_image, results_list,
                   detection, clock, callVars, sessVars,
                   shown, processed>>

\* Lines 65-75: the camera form is submitted with one captured frame.
Capture(frames) ==
    /\ pc = "form"
    /\ \E image \in frames :
         /\ images' = <<image>>
         /\ image_names' = <<"camera_capture.jpg">>
         /\ original_folder' =
                [n \in DOMAIN original_folder \cup {"camera_capture.jpg"} |->
                   IF n = "camera_capture.jpg" THEN image ELSE original_folder[n]]
    /\ idx' = 1
    /\ pc' = "detect_vials"
    /\ shown' = <<>>
    /\ UNCHANGED <<username, uploaded_files, processed_folder, combined_folder,
                   vials_out, pfs_out, final, combined_image, results_list,
                   detection, clock, error, callVars, sessVars, processed>>

\* Line 89: predict_and_draw(image, models["Vials"]). The model returns some
\* rows; the call takes one of the given numbers of seconds.
DetectVials(results, seconds) ==
    /\ pc = "detect_vials"
    /\ \E rows \in results, d \in seconds :
         LET out == predict_and_draw(images[idx], models["Vials"], rows, clock + d)
         IN  /\ clock' = clock + d
             /\ IF out.raised # NoError
                THEN /\ error' = Raise(out.raised, idx)
                     /\ pc' = "error"
                     /\ UNCHANGED vials_out
                ELSE /\ vials_out' = out
                     /\ pc' = "detect_pfs"
                     /\ UNCHANGED error
    /\ UNCHANGED <<username, uploaded_files, images, image_names, idx,
                   original_folder, processed_folder, combined_folder, pfs_out,
                   final, combined_image, results_list, detection, callVars, sessVars,
                   shown, processed>>

\* Line 90: predict_and_draw(image, models["PFS"]).
DetectPFS(results, seconds) ==
    /\ pc = "detect_pfs"
    /\ \E rows \in results, d \in seconds :
         LET out == predict_and_draw(images[idx], models["PFS"], rows, clock + d)
         IN  /\ clock' = clock + d
             /\ IF out.raised # NoError
                THEN /\ error' = Raise(out.raised, idx)
                     /\ pc' = "error"
                     /\ UNCHANGED pfs_out
                ELSE /\ pfs_out' = out
                     /\ pc' = "arbitrate"
                     /\ UNCHANGED error
    /\ UNCHANGED <<username, uploaded_files, images, image_names, idx,
                   original_folder, processed_folder, combined_folder, vials_out,
                   final, combined_image, results_list, detection, callVars, sessVars,
                   shown, processed>>

\* Lines 107-114 of detection_model.py: the model's predict call itself raises
\* (out of memory, say); nothing catches it.
PredictRaises ==
    /\ pc \in {"detect_vials", "detect_pfs"}
    /\ error' = Raise("RuntimeError", idx)
    /\ pc' = "error"
    /\ UNCHANGED <<username, uploaded_files, images, image_names, idx,
                   original_folder, processed_folder, combined_folder, vials_out,
                   pfs_out, final, combined_image, results_list, detection,
                   clock, callVars, sessVars,
                   shown, processed>>

\* A plausible slip: a tie goes to PFS.
arbitrate_strict(processed_image_vials, counts_vials, processed_image_pfs, counts_pfs) ==
    LET total_vials == Get(counts_vials, "VIAL", 0)
        total_pfs == Get(counts_pfs, "PFS", 0)
    IN  IF total_vials > total_pfs
        THEN [final_image |-> processed_image_vials, model_used |-> "Vials",
              final_counts |-> [PFS |-> 0, VIAL |-> total_vials]]
        ELSE [final_image |-> processed_image_pfs, model_used |-> "PFS",
              final_counts |-> [PFS |-> total_pfs, VIAL |-> 0]]

\* A plausible slip: the PFS branch written by copying the Vials branch, the
\* count left as it was there.
arbitrate_copied(processed_image_vials, counts_vials, processed_image_pfs, counts_pfs) ==
    LET total_vials == Get(counts_vials, "VIAL", 0)
        total_pfs == Get(counts_pfs, "PFS", 0)
    IN  IF total_vials >= total_pfs
        THEN [final_image |-> processed_image_vials, model_used |-> "Vials",
              final_counts |-> [PFS |-> 0, VIAL |-> total_vials]]
        ELSE [final_image |-> processed_image_pfs, model_used |-> "PFS",
              final_counts |-> [PFS |-> total_vials, VIAL |-> 0]]

\* A plausible slip: the loser's count is kept.
arbitrate_keep_loser(processed_image_vials, counts_vials, processed_image_pfs, counts_pfs) ==
    LET total_vials == Get(counts_vials, "VIAL", 0)
        total_pfs == Get(counts_pfs, "PFS", 0)
    IN  IF total_vials >= total_pfs
        THEN [final_image |-> processed_image_vials, model_used |-> "Vials",
              final_counts |-> [PFS |-> total_pfs, VIAL |-> total_vials]]
        ELSE [final_image |-> processed_image_pfs, model_used |-> "PFS",
              final_counts |-> [PFS |-> total_pfs, VIAL |-> total_vials]]

\* Lines 92-102.
arbitrate(processed_image_vials, counts_vials, processed_image_pfs, counts_pfs) ==
    LET total_vials == Get(counts_vials, "VIAL", 0)
        total_pfs == Get(counts_pfs, "PFS", 0)
    IN  IF total_vials >= total_pfs
        THEN [final_image |-> processed_image_vials, model_used |-> "Vials",
              final_counts |-> [PFS |-> 0, VIAL |-> total_vials]]
        ELSE [final_image |-> processed_image_pfs, model_used |-> "PFS",
              final_counts |-> [PFS |-> total_pfs, VIAL |-> 0]]

Arbitrate ==
    /\ pc = "arbitrate"
    /\ final' = arbitrate(vials_out.image, vials_out.counts,
                          pfs_out.image, pfs_out.counts)
    /\ pc' = "save"
    /\ UNCHANGED <<username, uploaded_files, images, image_names, idx,
                   original_folder, processed_folder, combined_folder, vials_out,
                   pfs_out, combined_image, results_list, detection, clock,
                   error, callVars, sessVars,
                   shown, processed>>

\* Lines 104-112: the annotated image is saved under the image's name, the
\* original is read back from original_images/ by that name, and the two are
\* combined, saved and shown.
SaveImages ==
    /\ pc = "save"
    /\ LET image_name == image_names[idx]
           original_img == original_folder[image_name]
           combined == concatenate_images(original_img, final.final_image)
       IN  /\ processed_folder' =
                  [n \in DOMAIN processed_folder \cup {image_name} |->
                     IF n = image_name THEN final.final_image
                     ELSE processed_folder[n]]
           /\ combined_image' = combined
           /\ combined_folder' =
                  [n \in DOMAIN combined_folder \cup {image_name} |->
                     IF n = image_name THEN combined ELSE combined_folder[n]]
    /\ pc' = "append"
    /\ UNCHANGED <<username, uploaded_files, images, image_names, idx,
                   original_folder, vials_out, pfs_out, final, results_list,
                   detection, clock, error, callVars, sessVars,
                   shown, processed>>

\* A plausible slip: the record carries the timestamp of the winning detector.
result_record_winner_time(image_name, fin, vials, pfs, user) ==
    [Image_Name |-> image_name,
     Model_Used |-> fin.model_used,
     PFS_Count |-> fin.final_counts["PFS"],
     VIAL_Count |-> fin.final_counts["VIAL"],
     Timestamp |-> IF fin.model_used = "PFS" THEN pfs.timestamp
                   ELSE vials.timestamp,
     Username |-> user]

\* Lines 115-122: the row of the results table.
result_record(image_name, fin, vials, pfs, user) ==
    [Image_Name |-> image_name,
     Model_Used |-> fin.model_used,
     PFS_Count |-> fin.final_counts["PFS"],
     VIAL_Count |-> fin.final_counts["VIAL"],
     Timestamp |-> vials.timestamp,
     Username |-> user]

AppendResult ==
    /\ pc = "append"
    /\ results_list' = Append(results_list,
                              result_record(image_names[idx], final, vials_out,
                                            pfs_out, username))
    /\ idx' = idx + 1
    /\ pc' = LoopHead(idx + 1, images)
    /\ processed' = Append(processed, results_list'[Len(results_list')])
    /\ UNCHANGED <<username, uploaded_files, images, image_names,
                   original_folder, processed_folder, combined_folder, vials_out,
                   pfs_out, final, combined_image, detection, clock, error,
                   callVars, sessVars, shown>>

\* Lines 125-134 with results_list empty: nothing is shown and nothing saved.
NoResults ==
    /\ pc = "table"
    /\ results_list = <<>>
    /\ pc' = "done"
    /\ UNCHANGED <<username, uploaded_files, images, image_names, idx,
                   original_folder, processed_folder, combined_folder, vials_out,
                   pfs_out, final, combined_image, results_list, detection,
                   clock, error, callVars, sessVars,
                   shown, processed>>

\* A plausible slip: the table lists every record of the login session.
ToSql_session_table ==
    /\ pc = "table"
    /\ results_list # <<>>
    /\ shown' = processed
    /\ detection' = detection \o results_list
    /\ pc' = "done"
    /\ UNCHANGED <<username, uploaded_files, images, image_names, idx,
                   original_folder, processed_folder, combined_folder, vials_out,
                   pfs_out, final, combined_image, results_list, clock, error,
                   callVars, sessVars,
                   processed>>

\* Lines 125-134: the table is shown and the whole frame goes to the database
\* in one to_sql call, which pandas runs as one transaction.
ToSql ==
    /\ pc = "table"
    /\ results_list # <<>>
    /\ shown' = results_list
    /\ detection' = detection \o results_list
    /\ pc' = "done"
    /\ UNCHANGED <<username, uploaded_files, images, image_names, idx,
                   original_folder, processed_folder, combined_folder, vials_out,
                   pfs_out, final, combined_image, results_list, clock, error,
                   callVars, sessVars,
                   processed>>

\* A plausible slip: the exception of to_sql caught and passed over, the
\* success message shown all the same.
ToSqlRaises_swallowed ==
    /\ pc = "table"
    /\ results_list # <<>>
    /\ shown' = results_list
    /\ \E k \in 1 .. Len(results_list) : error' = Raise("SQLAlchemyError", k)
    /\ pc' = "done"
    /\ UNCHANGED <<username, uploaded_files, images, image_names, idx,
                   original_folder, processed_folder, combined_folder, vials_out,
                   pfs_out, final, combined_image, results_list, detection,
                   clock, callVars, sessVars,
                   processed>>

\* Line 132 raising: the database rejects row k of the frame (or the
\* connection fails while it is sent); the transaction is rolled back, the
\* exception is shown and st.success is not reached.
ToSqlRaises ==
    /\ pc = "table"
    /\ results_list # <<>>
    /\ shown' = results_list
    /\ \E k \in 1 .. Len(results_list) : error' = Raise("SQLAlchemyError", k)
    /\ pc' = "error"
    /\ UNCHANGED <<username, uploaded_files, images, image_names, idx,
                   original_folder, processed_folder, combined_folder, vials_out,
                   pfs_out, final, combined_image, results_list, detection,
                   clock, callVars, sessVars,
                   processed>>

(***************************************************************************)
(* The page with a batch of uploaded files.                                *)
(***************************************************************************)
ImgA == [width |-> 1, height |-> 1, px |-> [p \in Coords(1, 1) |-> Red],
         draws |-> <<>>]
ImgB == [width |-> 1, height |-> 2,
         px |-> [p \in Coords(1, 2) |-> IF p[2] = 0 THEN Blue ELSE Red],
         draws |-> <<>>]

BatchFiles ==
    { File("a.jpg", TRUE, ImgA), File("a.jpg", TRUE, ImgB),
      File("b.jpg", TRUE, ImgA), File("b.jpg", FALSE, NoImage) }

Batches == SeqsUpTo(BatchFiles, MaxBatch)

\* What the two models return in a batch run: none, one or two boxes, a box
\* of an unmapped class first, a box of an unmapped class after a mapped one.
BatchVialsResults ==
    { <<>>, <<Row(0, 0, 0)>>, <<Row(0, 0, 0), Row(1, 0, 0)>>, <<Row(0, 0, 1)>> }
BatchPFSResults ==
    { <<>>, <<Row(0, 0, 0)>>, <<Row(1, 0, 1), Row(0, 0, 0)>> }

\* A row an earlier run left in the table.
OldRow ==
    [Image_Name |-> "old.jpg", Model_Used |-> "PFS", PFS_Count |-> 4,
     VIAL_Count |-> 0, Timestamp |-> 0, Username |-> "TestUser"]

Init ==
    /\ PageRendered
    /\ detection = <<OldRow>>
    /\ call = NoCall
    /\ ret = NoRet

Next ==
    \/ Submit(Batches)
    \/ UploadFile
    \/ Capture({ImgA, ImgB})
    \/ DetectVials(BatchVialsResults, {1})
    \/ DetectPFS(BatchPFSResults, {1})
    \/ PredictRaises
    \/ Arbitrate
    \/ SaveImages
    \/ AppendResult
    \/ NoResults
    \/ ToSql
    \/ ToSqlRaises

Spec == Init /\ [][Next]_vars

(***************************************************************************)
(* The page with one uploaded image, every result of the two models up to  *)
(* MaxDet boxes, and detector calls that take no or one second.            *)
(***************************************************************************)
OneImageBatches == { <<f>> : f \in { g \in BatchFiles : g.readable } }

OneImageResults == Results({<<0, 0>>}, MaxDet)

NextOne ==
    \/ Submit(OneImageBatches)
    \/ UploadFile
    \/ DetectVials(OneImageResults, {0, 1})
    \/ DetectPFS(OneImageResults, {0, 1})
    \/ Arbitrate
    \/ SaveImages
    \/ AppendResult
    \/ ToSql

SpecOne == Init /\ [][NextOne]_vars

(***************************************************************************)
(* predict_and_draw and concatenate_images called on their own.            *)
(***************************************************************************)
BoxOrigins == {<<0, 0>>, <<1, 0>>, <<0, 1>>}

InitDetect ==
    /\ PageRendered
    /\ detection = <<>>
    /\ \E image \in Images(MaxPixels), m \in ModelNames,
          rows \in Results(BoxOrigins, MaxDet) :
          call = [fn |-> "predict_and_draw", image |-> image, model |-> m,
                  rows |-> rows]
    /\ ret = NoRet

CallPredictAndDraw ==
    /\ call.fn = "predict_and_draw"
    /\ ~ret.done
    /\ ret' = [done |-> TRUE,
               value |-> predict_and_draw(call.image, models[call.model],
                                          call.rows, clock)]
    /\ UNCHANGED <<pageVars, call, sessVars, shown, processed>>

SpecDetect == InitDetect /\ [][CallPredictAndDraw]_vars

InitCompose ==
    /\ PageRendered
    /\ detection = <<>>
    /\ \E image1 \in Images(MaxPixels), image2 \in Images(MaxPixels) :
          call = [fn |-> "concatenate_images", image1 |-> image1,
                  image2 |-> image2]
    /\ ret = NoRet

CallConcatenateImages ==
    /\ call.fn = "concatenate_images"
    /\ ~ret.done
    /\ ret' = [done |-> TRUE,
               value |-> concatenate_images(call.image1, call.image2)]
    /\ UNCHANGED <<pageVars, call, sessVars, shown, processed>>

SpecCompose == InitCompose /\ [][CallConcatenateImages]_vars

(***************************************************************************)
(* create_user, create_test_user and authenticate called in any order on   *)
(* a users table that starts empty.                                        *)
(***************************************************************************)
MaxMail == 3

EmployeeIds == {"E1", TestEmployeeId}
Emails == {"ann@example.com", TestEmail}
\* What generate_random_password() may draw: eight letters and digits, so
\* never "testpassword".
RandomPasswords == {"pw1", "pw2"}
TypedEmails == Emails \cup {"nobody@example.com"}
TypedPasswords == RandomPasswords \cup {TestPassword}

\* st.session_state after home.py:41-43 on a fresh session: no key is_user.
FreshFlags == [k \in {"logged_in", "is_admin"} |-> FALSE]

InitUsers ==
    /\ RunStart
    /\ username = Absent
    /\ original_folder = EmptyDict
    /\ processed_folder = EmptyDict
    /\ combined_folder = EmptyDict
    /\ clock = 0
    /\ detection = <<>>
    /\ session_state = FreshFlags
    /\ page = "login"
    /\ module_call = "refused"
    /\ notice = ""
    /\ users = <<>>
    /\ outbox = <<>>
    /\ runs = 0
    /\ event = NoEvent
    /\ shown = <<>>
    /\ processed = <<>>
    /\ call = NoCall
    /\ ret = NoRet

usersFrame == <<pc, uploaded_files, images, image_names, idx, original_folder,
                processed_folder, combined_folder, vials_out, pfs_out, final,
                combined_image, results_list, detection, clock, error,
                session_state, page, module_call, notice, runs, event,
                shown, processed>>

CallCreateUser ==
    /\ Len(outbox) < MaxMail
    /\ \E employee_id \in EmployeeIds, email \in Emails,
          password \in RandomPasswords, smtp_ok \in BOOLEAN :
          LET r == create_user(users, outbox, employee_id, "Ann", "Lee", email,
                               "5550100", password, smtp_ok)
          IN  /\ call' = [fn |-> "create_user", employee_id |-> employee_id,
                          email |-> email]
              /\ ret' = [done |-> TRUE, value |-> r.ret]
              /\ users' = r.users
              /\ outbox' = r.outbox
    /\ UNCHANGED <<usersFrame, username>>

CallCreateTestUser ==
    /\ Len(outbox) < MaxMail
    /\ \E smtp_ok \in BOOLEAN :
          LET r == create_test_user(users, outbox, smtp_ok)
          IN  /\ call' = [fn |-> "create_test_user"]
              /\ ret' = [done |-> TRUE, value |-> r.ret]
              /\ users' = r.users
              /\ outbox' = r.outbox
    /\ UNCHANGED <<usersFrame, username>>

CallAuthenticate ==
    /\ Len(outbox) < MaxMail
    /\ \E email \in TypedEmails, password \in TypedPasswords :
          LET r == authenticate(users, email, password, username)
          IN  /\ call' = [fn |-> "authenticate", email |-> email,
                          password |-> password]
              /\ ret' = [done |-> TRUE, value |-> r.ret]
              /\ username' = r.username
    /\ UNCHANGED <<usersFrame, users, outbox>>

NextUsers ==
    \/ CallCreateUser
    \/ CallCreateTestUser
    \/ CallAuthenticate

SpecUsers == InitUsers /\ [][NextUsers]_vars

(***************************************************************************)
(* A browser session of the app: every widget event runs home() from the   *)
(* top; st.rerun() runs it once more without an event.                     *)
(***************************************************************************)
MaxRuns == 2

\* st.session_state before the first run: no key at all.
NoFlags == [k \in {} |-> FALSE]

\* st.session_state[key] = value
SetItem(d, key, value) ==
    [k \in DOMAIN d \cup {key} |-> IF k = key THEN value ELSE d[k]]

\* home.py:41-43
init_flags(ss) ==
    IF "logged_in" \notin DOMAIN ss
    THEN SetItem(SetItem(ss, "logged_in", FALSE), "is_admin", FALSE)
    ELSE ss

\* A plausible slip: the role looked at before the login flag.
home_page_role_first(ss, name) ==
    IF "is_user" \in DOMAIN ss /\ ss["is_user"]
    THEN IF name = Absent THEN "refused" ELSE "detect"
    ELSE IF ss["logged_in"]
    THEN IF ss["is_admin"] THEN "admin" ELSE "blank"
    ELSE "login"

\* home.py:59-68 and user_page.py:30-32: the page a run of home() renders.
home_page(ss, name) ==
    IF ss["logged_in"]
    THEN IF ss["is_admin"] THEN "admin"
         ELSE IF ss["is_user"]
         THEN IF name = Absent THEN "refused" ELSE "detect"
         ELSE "blank"
    ELSE "login"

\* home.py:57 finds the test user and does nothing.
TestUserThere ==
    \A smtp_ok \in BOOLEAN :
        LET t == create_test_user(users, outbox, smtp_ok)
        IN  t.users = users /\ t.outbox = outbox /\ t.ret = ReturnNone

\* The first run of the script in a session: home.py is imported, and with
\* it user_page.py, whose last line calls user_detection_page(); then home()
\* sets the flags, creates the test user and shows the login form. An smtplib
\* exception of send_password_email ends the run with the exception shown.
FirstRun ==
    /\ page = "none"
    /\ module_call' = IF username = Absent THEN "refused" ELSE "ran"
    /\ session_state' = init_flags(session_state)
    /\ \E smtp_ok \in BOOLEAN :
          LET t == create_test_user(users, outbox, smtp_ok)
          IN  /\ users' = t.users
              /\ outbox' = t.outbox
              /\ page' = IF t.ret.kind = "SMTPException" THEN "error"
                         ELSE home_page(session_state', username)
    /\ UNCHANGED <<pageVars, callVars, notice, runs, event, shown, processed>>

\* The app is run again without an event (Rerun in Streamlit's menu).
Rerun ==
    /\ page # "none"
    /\ pc = "form"
    /\ \E smtp_ok \in BOOLEAN :
          LET t == create_test_user(users, outbox, smtp_ok)
          IN  /\ users' = t.users
              /\ outbox' = t.outbox
              /\ page' = IF t.ret.kind = "SMTPException" THEN "error"
                         ELSE home_page(session_state, username)
    /\ event' = NoEvent
    /\ notice' = ""
    /\ shown' = <<>>
    /\ UNCHANGED <<pageVars, callVars, session_state, module_call, runs,
                   processed>>

\* What a login branch leaves: the flags, the username and the message.
LoginOutcome(ss, name, message) ==
    [session_state |-> ss, username |-> name, notice |-> message]

\* A plausible slip: only the email compared.
admin_login_email_only(ss, name, email, password) ==
    IF email = "admin"
    THEN LoginOutcome(Flags(TRUE, TRUE, FALSE), name, "")
    ELSE LoginOutcome(ss, name, "Invalid admin credentials!")

\* home.py:82-90
admin_login(ss, name, email, password) ==
    IF email = "admin" /\ password = "admin"
    THEN LoginOutcome(SetItem(SetItem(SetItem(ss, "logged_in", TRUE),
                                      "is_admin", TRUE), "is_user", FALSE),
                      name, "")
    ELSE LoginOutcome(ss, name, "Invalid admin credentials!")

\* home.py:97-106
user_login(ss, name, table, email, password) ==
    LET a == authenticate(table, email, password, name)
    IN  IF a.ret.kind = "User"
        THEN LoginOutcome(SetItem(SetItem(SetItem(ss, "logged_in", TRUE),
                                          "is_admin", FALSE), "is_user", TRUE),
                          a.username, "")
        ELSE LoginOutcome(ss, a.username, "Invalid user credentials!")

\* home.py:110-123
test_user_login(ss, name, table) ==
    LET a == authenticate(table, TestEmail, TestPassword, name)
    IN  IF a.ret.kind = "User"
        THEN LoginOutcome(SetItem(SetItem(SetItem(ss, "logged_in", TRUE),
                                          "is_admin", FALSE), "is_user", TRUE),
                          "TestUser", "")
        ELSE LoginOutcome(ss, a.username, "Invalid test user credentials!")

\* A run of home() that reaches the login form with a login button pressed:
\* the branch of the button, then (after st.rerun() on success) the page of
\* the new flags.
LoginRun(ev, outcome) ==
    /\ page = "login"
    /\ pc = "form"
    /\ TestUserThere
    /\ home_page(init_flags(session_state), username) = "login"
    /\ event' = ev
    /\ session_state' = outcome.session_state
    /\ username' = outcome.username
    /\ notice' = outcome.notice
    /\ page' = home_page(outcome.session_state, outcome.username)
    /\ shown' = <<>>
    /\ processed' = IF outcome.notice = "" THEN <<>> ELSE processed
    /\ UNCHANGED <<pc, uploaded_files, images, image_names, idx,
                   original_folder, processed_folder, combined_folder,
                   vials_out, pfs_out, final, combined_image, results_list,
                   detection, clock, error, callVars, module_call, users,
                   outbox, runs>>

AdminCredentials == {"admin", "x"}
\* The password generate_random_password() draws in a session.
SessionPasswords == {"pw1"}

LoginAdmin ==
    \E email \in AdminCredentials, password \in AdminCredentials :
        LoginRun(Event("Login as Admin", email, password, <<>>),
                 admin_login(session_state, username, email, password))

LoginUser ==
    \E email \in Emails, password \in SessionPasswords \cup {TestPassword} :
        LoginRun(Event("Login as User", email, password, <<>>),
                 user_login(session_state, username, users, email, password))

LoginTest ==
    LoginRun(Event("Login as Test User", "", "", <<>>),
             test_user_login(session_state, username, users))

\* admin_page.py:61-86: the Create User form is submitted.
AdminCreateUser ==
    /\ page = "admin"
    /\ pc = "form"
    /\ TestUserThere
    /\ home_page(session_state, username) = "admin"
    /\ \E employee_id \in EmployeeIds \cup {""}, email \in Emails,
          password \in SessionPasswords, smtp_ok \in BOOLEAN :
          LET r == create_user(users, outbox, employee_id, "Ann", "Lee", email,
                               "5550100", password, smtp_ok)
          IN  /\ event' = Event("Create User", email, employee_id, <<>>)
              /\ IF employee_id = ""
                 THEN /\ notice' = "Please fill all the fields."
                      /\ UNCHANGED <<users, outbox>>
                 ELSE /\ users' = r.users
                      /\ outbox' = r.outbox
                      /\ notice' = IF r.ret.kind = "SMTPException"
                                   THEN "Error creating user"
                                   ELSE "User Ann Lee created successfully!"
    /\ shown' = <<>>
    /\ UNCHANGED <<pageVars, callVars, session_state, page, module_call, runs,
                   processed>>

\* admin_page.py:89-93
admin_logout(ss) ==
    SetItem(SetItem(ss, "logged_in", FALSE), "is_admin", FALSE)

AdminLogout ==
    /\ page = "admin"
    /\ pc = "form"
    /\ TestUserThere
    /\ home_page(session_state, username) = "admin"
    /\ event' = Event("Logout", "", "", <<>>)
    /\ session_state' = admin_logout(session_state)
    /\ page' = home_page(session_state', username)
    /\ notice' = ""
    /\ shown' = <<>>
    /\ UNCHANGED <<pageVars, callVars, module_call, users, outbox, runs,
                   processed>>

\* The first file Image.open cannot read, or 0.
FirstUnreadable(files) ==
    IF \E k \in 1 .. Len(files) : ~files[k].readable
    THEN CHOOSE k \in 1 .. Len(files) :
            /\ ~files[k].readable
            /\ \A j \in 1 .. k - 1 : files[j].readable
    ELSE 0

\* original_images/ after image.save of the first n files (line 63).
RECURSIVE SaveOriginals(_, _, _)
SaveOriginals(folder, files, n) ==
    IF n = 0 THEN folder
    ELSE LET before == SaveOriginals(folder, files, n - 1)
         IN  [name \in DOMAIN before \cup {files[n].name} |->
                 IF name = files[n].name THEN files[n].image ELSE before[name]]

\* user_page.py:77-82
user_logout(ss) ==
    SetItem(SetItem(ss, "logged_in", FALSE), "is_admin", FALSE)

\* A run of the detection page with Logout pressed, the upload form submitted
\* with files in the same run or not (Streamlit merges events that arrive
\* while a run is pending). Lines 57-63 open and save the files; Logout on
\* line 77 comes next, before the loop of line 85, and st.rerun() drops the
\* locals. Image.open raising on line 59 ends the run before line 77.
UserLogout(batches) ==
    /\ page = "detect"
    /\ pc = "form"
    /\ TestUserThere
    /\ home_page(session_state, username) = "detect"
    /\ \E files \in batches :
          LET bad == FirstUnreadable(files)
          IN  /\ event' = Event("Logout", "", "", files)
              /\ IF bad # 0
                 THEN /\ uploaded_files' = files
                      /\ images' = [k \in 1 .. bad - 1 |-> files[k].image]
                      /\ image_names' = [k \in 1 .. bad - 1 |-> files[k].name]
                      /\ original_folder' =
                             SaveOriginals(original_folder, files, bad - 1)
                      /\ idx' = bad
                      /\ error' = Raise("UnidentifiedImageError", bad)
                      /\ pc' = "error"
                      /\ UNCHANGED <<session_state, username, page>>
                 ELSE /\ original_folder' =
                             SaveOriginals(original_folder, files, Len(files))
                      /\ session_state' = user_logout(session_state)
                      /\ username' = PyNone
                      /\ page' = home_page(session_state', username')
                      /\ UNCHANGED <<uploaded_files, images, image_names, idx,
                                     error, pc>>
    /\ notice' = ""
    /\ shown' = <<>>
    /\ UNCHANGED <<processed_folder, combined_folder, vials_out, pfs_out,
                   final, combined_image, results_list, detection, clock,
                   callVars, module_call, users, outbox, runs, processed>>

\* The upload form submitted on the detection page.
SessionSubmit(batches) ==
    /\ page = "detect"
    /\ TestUserThere
    /\ home_page(session_state, username) = "detect"
    /\ runs < MaxRuns
    /\ Submit(batches)

\* The script run is over: its locals are gone, the page stays on screen
\* until the next event.
EndRun ==
    /\ pc \in {"done", "error"}
    /\ pc' = "form"
    /\ uploaded_files' = <<>>
    /\ images' = <<>>
    /\ image_names' = <<>>
    /\ idx' = 0
    /\ vials_out' = NoOutcome
    /\ pfs_out' = NoOutcome
    /\ final' = NoFinal
    /\ combined_image' = NoImage
    /\ results_list' = <<>>
    /\ error' = NoException
    /\ runs' = IF runs < MaxRuns THEN runs + 1 ELSE runs
    /\ UNCHANGED <<username, original_folder, processed_folder,
                   combined_folder, detection, clock, callVars, session_state,
                   page, module_call, notice, users, outbox, event, shown,
                   processed>>

FileA == File("a.jpg", TRUE, ImgA)
FileA2 == File("a.jpg", TRUE, ImgB)
FileBad == File("b.jpg", FALSE, NoImage)
SessionBatches == {<<FileA>>, <<FileA, FileA2>>}
LogoutBatches == {<<>>, <<FileA>>, <<FileBad>>}
SessionVialsResults == {<<Row(0, 0, 0)>>}
SessionPFSResults == {<<>>}

InitSession ==
    /\ RunStart
    /\ username = Absent
    /\ original_folder = EmptyDict
    /\ processed_folder = EmptyDict
    /\ combined_folder = EmptyDict
    /\ clock = 0
    /\ detection = <<>>
    /\ session_state = NoFlags
    /\ page = "none"
    /\ module_call = "pending"
    /\ notice = ""
    /\ users = <<>>
    /\ outbox = <<>>
    /\ runs = 0
    /\ event = NoEvent
    /\ shown = <<>>
    /\ processed = <<>>
    /\ call = NoCall
    /\ ret = NoRet

NextSession ==
    \/ FirstRun
    \/ Rerun
    \/ LoginAdmin
    \/ LoginUser
    \/ LoginTest
    \/ AdminCreateUser
    \/ AdminLogout
    \/ UserLogout(LogoutBatches)
    \/ SessionSubmit(SessionBatches)
    \/ UploadFile
    \/ DetectVials(SessionVialsResults, {0})
    \/ DetectPFS(SessionPFSResults, {0})
    \/ Arbitrate
    \/ SaveImages
    \/ AppendResult
    \/ ToSql
    \/ ToSqlRaises
    \/ EndRun

SpecSession == InitSession /\ [][NextSession]_vars

(***************************************************************************)
(* Properties of concatenate_images and predict_and_draw.                  *)
(***************************************************************************)
\* C5: concatenate_images(A, B) is width(A)+width(B) wide and
\* max(height(A), height(B)) high; its pixels are those of A in
\* [0,width(A)) x [0,height(A)), those of B, unscaled, in
\* [width(A), width(A)+width(B)) x [0,height(B)), and the background (black)
\* everywhere else.
C5_Compose ==
    ret.done =>
        LET A == call.image1
            B == call.image2
            R == ret.value
        IN  /\ R.width = A.width + B.width
            /\ R.height = (IF A.height >= B.height THEN A.height ELSE B.height)
            /\ DOMAIN R.px = (0 .. R.width - 1) \X (0 .. R.height - 1)
            /\ \A x \in 0 .. R.width - 1, y \in 0 .. R.height - 1 :
                 R.px[<<x, y>>] =
                    IF x < A.width /\ y < A.height THEN A.px[<<x, y>>]
                    ELSE IF x >= A.width /\ y < B.height
                         THEN B.px[<<x - A.width, y>>]
                    ELSE Black

\* Two images of different heights and different contents have been composed.
C5_Witness ==
    /\ ret.done
    /\ call.fn = "concatenate_images"
    /\ call.image1.height < call.image2.height
    /\ call.image1.px[<<0, 0>>] = Red
    /\ call.image2.px[<<0, 0>>] = Blue
    /\ call.image2.px[<<0, 1>>] = Red

\* Pixel content: same size and the same value in every channel of every pixel.
SamePixels(a, b) ==
    /\ a.width = b.width
    /\ a.height = b.height
    /\ \A p \in Coords(a.width, a.height) : a.px[p] = b.px[p]

\* C6: with no detection, predict_and_draw returns without raising, its image
\* has the pixel content of the input image, and its counts contribute 0 for
\* every known label.
C6_NoDetection ==
    (ret.done /\ call.rows = <<>>) =>
        /\ ret.value.raised = NoError
        /\ SamePixels(ret.value.image, call.image)
        /\ ret.value.image.draws = <<>>
        /\ \A l \in KnownLabels : Get(ret.value.counts, l, 0) = 0

\* The number of rows whose class id the label table maps to label l.
CountOf(rows, classes, l) ==
    Cardinality({ k \in 1 .. Len(rows) : Get(classes, rows[k].cls, "Unknown") = l })

\* C7: for every non-empty sequence of detections, predict_and_draw returns
\* without raising and the count of each known label is the number of
\* detections whose class id maps to it (unmapped ids add to no count).
C7_Counts ==
    (ret.done /\ call.rows # <<>>) =>
        /\ ret.value.raised = NoError
        /\ \A l \in KnownLabels :
             Get(ret.value.counts, l, 0) =
                CountOf(call.rows, models[call.model].classes, l)

(***************************************************************************)
(* Properties of the detection page.                                       *)
(***************************************************************************)
Arbitrated == pc \in {"save", "append", "table", "done"}
InLoopBody == pc \in {"detect_vials", "detect_pfs", "arbitrate", "save", "append"}
Rows(table) == { table[k] : k \in 1 .. Len(table) }

\* The counts the two detectors measured on the current image: a label
\* missing from a count map counts as 0.
MeasuredVials == IF "VIAL" \in DOMAIN vials_out.counts THEN vials_out.counts["VIAL"] ELSE 0
MeasuredPFS == IF "PFS" \in DOMAIN pfs_out.counts THEN pfs_out.counts["PFS"] ELSE 0

\* C1: when the Vials detector counted v VIALs and the PFS detector p PFSs
\* with v >= p (ties and empty count maps included), the result names model
\* "Vials" with vial_count = v and pfs_count = 0, in the arbitration result and
\* in the record made of it.
C1_VialsSide ==
    (Arbitrated /\ MeasuredVials >= MeasuredPFS) =>
        /\ final.model_used = "Vials"
        /\ final.final_counts = [PFS |-> 0, VIAL |-> MeasuredVials]
        /\ final.final_image = vials_out.image
        /\ \A k \in 1 .. Len(results_list) :
             /\ results_list[k].Model_Used = "Vials"
             /\ results_list[k].VIAL_Count = MeasuredVials
             /\ results_list[k].PFS_Count = 0

\* A nonzero tie has been arbitrated and recorded.
C1_Witness ==
    /\ pc = "done"
    /\ MeasuredVials = MeasuredPFS
    /\ MeasuredVials > 0
    /\ Len(results_list) = 1
    /\ results_list[1].Model_Used = "Vials"

\* Both detectors returned an empty count map and the result went to Vials.
C1_WitnessEmpty ==
    /\ pc = "done"
    /\ vials_out.counts = EmptyDict
    /\ pfs_out.counts = EmptyDict
    /\ Len(results_list) = 1

\* C2: when the PFS detector counted more PFSs (p) than the Vials detector
\* counted VIALs (v), the result names model "PFS" with pfs_count = p and
\* vial_count = 0, whatever v is.
C2_PFSSide ==
    (Arbitrated /\ MeasuredPFS > MeasuredVials) =>
        /\ final.model_used = "PFS"
        /\ final.final_counts = [PFS |-> MeasuredPFS, VIAL |-> 0]
        /\ final.final_image = pfs_out.image
        /\ \A k \in 1 .. Len(results_list) :
             /\ results_list[k].Model_Used = "PFS"
             /\ results_list[k].PFS_Count = MeasuredPFS
             /\ results_list[k].VIAL_Count = 0

\* PFS has won against a Vials detector that measured something.
C2_Witness ==
    /\ pc = "done"
    /\ MeasuredVials > 0
    /\ MeasuredPFS > MeasuredVials
    /\ Len(results_list) = 1
    /\ results_list[1].Model_Used = "PFS"

\* The loser's count is 0 in a record: at most one count is nonzero and it is
\* the count of the model the record names.
LoserZero(r) ==
    /\ r.Model_Used \in ModelNames
    /\ r.PFS_Count >= 0
    /\ r.VIAL_Count >= 0
    /\ r.Model_Used = "Vials" => r.PFS_Count = 0
    /\ r.Model_Used = "PFS" => r.VIAL_Count = 0

\* One record per image processed so far, in order, under the image's name.
OneRecordPerImage ==
    /\ Len(results_list) <= Len(images)
    /\ \A k \in 1 .. Len(results_list) : results_list[k].Image_Name = image_names[k]
    /\ InLoopBody => Len(results_list) = idx - 1
    /\ pc \in {"table", "done"} => Len(results_list) = Len(images)

\* No step changes or removes a record that results_list or the table holds.
RecordsKept ==
    /\ Len(results_list') >= Len(results_list)
    /\ \A k \in 1 .. Len(results_list) : results_list'[k] = results_list[k]
    /\ Len(detection') >= Len(detection)
    /\ \A k \in 1 .. Len(detection) : detection'[k] = detection[k]

\* C3: in every record of the results list and of the table the loser's count
\* is 0; there is one record per processed image; and no step of the run,
\* the processing of later images included, changes a record once appended.
C3_ResultLog ==
    /\ [](/\ \A r \in Rows(results_list) \cup Rows(detection) : LoserZero(r)
          /\ OneRecordPerImage)
    /\ [][RecordsKept]_vars

\* Two images are recorded, the second after the first was appended, and on
\* the last one the losing PFS detector had measured a nonzero count.
C3_Witness ==
    /\ pc = "done"
    /\ Len(results_list) >= 2
    /\ Len(detection) >= 3
    /\ MeasuredPFS > 0
    /\ results_list[Len(results_list)].Model_Used = "Vials"
    /\ results_list[1].Model_Used = "PFS"

\* C4: the timestamp of a result record is the one the Vials detector's call
\* returned for the image, also when PFS wins; it is not the PFS call's.
C4_VialsTimestamp ==
    (results_list # <<>> /\ pc \in {"detect_vials", "table", "done"}) =>
        LET r == results_list[Len(results_list)]
        IN  /\ r.Timestamp = vials_out.timestamp
            /\ pfs_out.timestamp # vials_out.timestamp
                 => r.Timestamp # pfs_out.timestamp
            /\ pc = "done" => detection[Len(detection)].Timestamp = vials_out.timestamp

\* PFS has won, its call returned a later timestamp than the Vials call, and
\* the record is in the table.
C4_Witness ==
    /\ pc = "done"
    /\ Len(results_list) = 1
    /\ results_list[1].Model_Used = "PFS"
    /\ pfs_out.timestamp > vials_out.timestamp

\* C8: when the database rejects the record of one image of a batch, the
\* records of the other images of the batch are in the table all the same.
C8_PerImageDurability ==
    (pc = "error" /\ error.type = "SQLAlchemyError") =>
        \A k \in 1 .. Len(results_list) :
            k # error.at => results_list[k] \in Rows(detection)

\* C9: an image is processed, the append of its record to the table included,
\* before any step of the next image: while image k+1 is in the loop body the
\* record of image k is in the table.
C9_RecordedBeforeNext ==
    (InLoopBody /\ idx > 1) => results_list[idx - 1] \in Rows(detection)

\* C10: when a file of the batch is no readable image, the error is shown,
\* and every other file of the batch is detected, composed and recorded.
C10_SkipUnreadable ==
    (pc = "error" /\ error.type = "UnidentifiedImageError") =>
        \A k \in 1 .. Len(uploaded_files) :
            uploaded_files[k].readable =>
                /\ uploaded_files[k].name \in DOMAIN combined_folder
                /\ \E r \in Rows(detection) :
                     r.Image_Name = uploaded_files[k].name

\* C11: when a detector call fails on an image, no record of that image is
\* written, and the records of the images processed before it in the batch
\* are in the table.
C11_InferenceError ==
    (pc = "error" /\ error.type = "RuntimeError") =>
        /\ Len(results_list) = error.at - 1
        /\ \A k \in 1 .. error.at - 1 : results_list[k] \in Rows(detection)

\* Every image of the batch has its original, annotated and combined file.
FilesWritten ==
    \A k \in 1 .. Len(image_names) :
        /\ image_names[k] \in DOMAIN original_folder
        /\ image_names[k] \in DOMAIN processed_folder
        /\ image_names[k] \in DOMAIN combined_folder

\* C12: when to_sql raises, the run ends with the exception shown and without
\* the success message, and the step leaves the three folders as they were:
\* the files written for the images of the batch are all there.
C12_FilesKept ==
    /\ [](error.type = "SQLAlchemyError" => (pc = "error" /\ FilesWritten))
    /\ [][error'.type = "SQLAlchemyError" =>
            /\ original_folder' = original_folder
            /\ processed_folder' = processed_folder
            /\ combined_folder' = combined_folder
            /\ detection' = detection]_vars

\* The database has rejected the batch of two or more images.
C12_Witness ==
    /\ pc = "error"
    /\ error.type = "SQLAlchemyError"
    /\ Len(image_names) >= 2
    /\ image_names[1] # image_names[2]
    /\ FilesWritten

\* C20: the combined image of an image of the batch has that image's own
\* original on the left and the winning detector's annotated output for it on
\* the right, also when two files of the batch have the same name.
C20_OwnOriginal ==
    pc = "append" =>
        LET own == images[idx]
            right == final.final_image
        IN  /\ combined_image.width = own.width + right.width
            /\ \A p \in Coords(own.width, own.height) :
                 p \in DOMAIN combined_image.px /\ combined_image.px[p] = own.px[p]
            /\ \A p \in Coords(right.width, right.height) :
                 /\ <<p[1] + own.width, p[2]>> \in DOMAIN combined_image.px
                 /\ combined_image.px[<<p[1] + own.width, p[2]>>] = right.px[p]
            /\ combined_folder[image_names[idx]] = combined_image

(***************************************************************************)
(* Properties of the users table and of authenticate.                      *)
(***************************************************************************)
\* Some user has this email and a hash made of this password.
Matches(table, email, password) ==
    \E k \in 1 .. Len(table) :
        /\ table[k].email = email
        /\ table[k].hashed_password = generate_password_hash(password)

\* C17: authenticate(email, password) returns the user exactly when a user
\* with that email exists and the password matches its stored hash, and None
\* otherwise; a failed call leaves username and the three flags as they were,
\* and username is written (the full name of the user) only on success.
C17_Authenticate ==
    [][call'.fn = "authenticate" =>
         /\ session_state' = session_state
         /\ IF Matches(users, call'.email, call'.password)
            THEN /\ ret'.value.kind = "User"
                 /\ ret'.value.user.email = call'.email
                 /\ ret'.value.user \in Rows(users)
                 /\ username' = FullName(ret'.value.user)
            ELSE /\ ret'.value = ReturnNone
                 /\ username' = username]_vars

\* A call with the email of a user and a password that is not theirs has
\* returned None.
C17_Witness ==
    /\ call.fn = "authenticate"
    /\ ret.value = ReturnNone
    /\ \E k \in 1 .. Len(users) : users[k].email = call.email
    /\ username = "Test User"

Unique(table) ==
    \A j, k \in 1 .. Len(table) :
        j # k => /\ table[j].email # table[k].email
                 /\ table[j].employee_id # table[k].employee_id

\* C18: after any sequence of create_user and create_test_user calls no two
\* users share an email and no two share an employee_id; a create_user call
\* that would repeat either returns None and leaves the table (and the
\* outbox) as before the call.
C18_Uniqueness ==
    /\ []Unique(users)
    /\ [][(/\ call'.fn = "create_user"
           /\ \E k \in 1 .. Len(users) :
                 \/ users[k].email = call'.email
                 \/ users[k].employee_id = call'.employee_id)
          => /\ users' = users
             /\ outbox' = outbox
             /\ ret'.value = ReturnNone]_vars

\* create_user was refused for an employee_id taken by a user of another
\* email.
C18_Witness ==
    /\ call.fn = "create_user"
    /\ ret.value = ReturnNone
    /\ \E k \in 1 .. Len(users) :
          /\ users[k].employee_id = call.employee_id
          /\ users[k].email # call.email

\* C19: after create_test_user has run, whatever users were created before,
\* a user with email testuser@example.com exists whose password is
\* "testpassword"; a call made when a user of that email exists adds no user,
\* changes no user and sends no email.
C19_TestUserProvisioned ==
    [][call'.fn = "create_test_user" =>
         /\ Matches(users', TestEmail, TestPassword)
         /\ (\E k \in 1 .. Len(users) : users[k].email = TestEmail)
               => (users' = users /\ outbox' = outbox)]_vars

(***************************************************************************)
(* Properties of a session.                                                *)
(***************************************************************************)
LoggedIn == "logged_in" \in DOMAIN session_state /\ session_state["logged_in"]
IsAdmin == "is_admin" \in DOMAIN session_state /\ session_state["is_admin"]
IsUser == "is_user" \in DOMAIN session_state /\ session_state["is_user"]

\* The last n records of the session.
LastProcessed(n) ==
    SubSeq(processed, Len(processed) - n + 1, Len(processed))

\* C13 as stated: after any sequence of submissions in one login session the
\* results table lists every result record processed in that session, one
\* per processed image, in the order the images were processed.
C13_SessionTable == pc = "done" => shown = processed

\* C13, amended: the results table, when shown, lists exactly the records of
\* the images of the submission being processed, one per image (equal names
\* each get their own record), in processing order; the records of earlier
\* submissions of the session are not listed.
C13_SubmissionTable ==
    /\ shown # <<>> =>
          /\ Len(shown) <= Len(processed)
          /\ shown = LastProcessed(Len(shown))
    /\ (pc \in {"done", "error"} /\ shown # <<>>) =>
          /\ shown = results_list
          /\ Len(shown) = Len(image_names)
          /\ \A k \in 1 .. Len(shown) : shown[k].Image_Name = image_names[k]

\* The second submission of a session, of two files of one name, is shown:
\* two records, and the record of the first submission is not among them.
C13_Witness ==
    /\ pc = "done"
    /\ runs >= 1
    /\ Len(shown) = 2
    /\ shown[1].Image_Name = shown[2].Image_Name
    /\ Len(processed) > Len(shown)

\* C14: the admin dashboard is rendered (and a user created) only when
\* logged_in and is_admin are both true; the detection page is rendered, and
\* a run of it is under way, only when logged_in is true, is_admin false and
\* is_user true; so a session that never logged in, or that logged out,
\* reaches neither; and the call on the last line of user_page.py is refused.
C14_RoleGating ==
    /\ page = "admin" => (LoggedIn /\ IsAdmin)
    /\ event.widget = "Create User" => (LoggedIn /\ IsAdmin)
    /\ (page = "detect" \/ pc # "form") => (LoggedIn /\ ~IsAdmin /\ IsUser)
    /\ ~LoggedIn => page \in {"none", "login", "error"}
    /\ module_call # "ran"

\* A user has logged out after a run that recorded an image: is_user is
\* still true, and the login form is what the session shows.
C14_Witness ==
    /\ event.widget = "Logout"
    /\ IsUser
    /\ ~LoggedIn
    /\ username = PyNone
    /\ page = "login"
    /\ processed # <<>>
    /\ module_call = "refused"

\* C15: a run in which Logout is pressed, on the admin dashboard or on the
\* detection page, sets logged_in and is_admin to false and renders the
\* login form; on the detection page no image submitted in the same run is
\* processed.
C15_Logout ==
    [][event'.widget = "Logout" =>
         /\ ~session_state'["logged_in"]
         /\ ~session_state'["is_admin"]
         /\ page' = "login"
         /\ pc' = "form"
         /\ results_list' = <<>>
         /\ processed' = processed
         /\ processed_folder' = processed_folder
         /\ combined_folder' = combined_folder
         /\ detection' = detection]_vars

\* C16: is_admin becomes true only in a run of Admin Login with email
\* "admin" and password "admin"; Admin Login with any other pair shows the
\* error and leaves the flags as they were; User Login and Test User Login
\* never leave is_admin true.
C16_AdminLogin ==
    /\ [][(~IsAdmin /\ session_state'["is_admin"]) =>
             event' = Event("Login as Admin", "admin", "admin", <<>>)]_vars
    /\ [][(/\ event'.widget = "Login as Admin"
           /\ ~(event'.email = "admin" /\ event'.password = "admin"))
          => /\ notice' = "Invalid admin credentials!"
             /\ session_state' = session_state
             /\ page' = "login"]_vars
    /\ [][event'.widget \in {"Login as User", "Login as Test User"} =>
             ~session_state'["is_admin"]]_vars

\* Admin Login with the right email and a wrong password, in a session where
\* a user had logged in before: refused, is_user still true.
C16_Witness ==
    /\ event = Event("Login as Admin", "admin", "x", <<>>)
    /\ notice = "Invalid admin credentials!"
    /\ IsUser
    /\ ~LoggedIn
    /\ ~IsAdmin
    /\ page = "login"

====
